---- MODULE Spec2Model ----
(***************************************************************************)
(* State-machine model of midi_markov_pipeline.py: note-sequence           *)
(* extraction, first-order Markov model building, surprise scoring and the *)
(* per-style orchestration done by main().                                 *)
(*                                                                         *)
(* Representation choices:                                                 *)
(*  - a Python dict is a TLA+ function whose DOMAIN is the key set; a key  *)
(*    that is absent from the dict is absent from the DOMAIN;              *)
(*  - a float quotient c / total is the rational it rounds, kept as the   *)
(*    reduced fraction <<num, den>> (equal quotients give equal floats);  *)
(*  - the surprise -log2(p) is kept symbolically as [neglog2 |-> p];       *)
(*  - a path is the sequence of its segments relative to ROOT_DIR.        *)
(*  - dicts are compared as mappings; the order of their keys is kept    *)
(*    only where the program iterates over it (style_order).              *)
(***************************************************************************)
EXTENDS Integers, Sequences, FiniteSets, TLC

VARIABLES
    root_isdir,     \* os.path.isdir(ROOT_DIR)
    fs,             \* files under ROOT_DIR: path -> MIDI file content (no step of the program writes it)
    pc,             \* position of the running program
    midi_files,     \* main: list returned by find_midi_files
    idx,            \* main: position of the current `for path in midi_files` loop
    text_files,     \* main: paths whose text dump was written
    style_to_files, \* main: dict style -> list of paths
    style_order,    \* main: insertion order of the keys of style_to_files
    style_models,   \* main: dict style -> transition_probs
    cur,            \* main: position in style_order of the style being built
    bpos,           \* build_first_order_markov: position in midi_paths
    counts,         \* build_first_order_markov: the counts being accumulated
    scored,         \* main: calls of write_surprise_file, with the model used
    skipped,        \* main: [skip ] reports
    call,           \* arguments of a function called on its own
    ret             \* its result

vars == <<root_isdir, fs, pc, midi_files, idx, text_files, style_to_files,
          style_order, style_models, cur, bpos, counts, scored, skipped,
          call, ret>>

mainVars == <<root_isdir, fs, midi_files, idx, text_files, style_to_files,
              style_order, style_models, cur, bpos, counts, scored, skipped>>

-----------------------------------------------------------------------------
(* Bounds of the model *)

\* longest note sequence of a corpus file
MaxLen == 3
\* longest midi_paths list handed to build_first_order_markov on its own
MaxPaths == 2
\* largest count of one transition in a directly drawn count table
MaxCount == 2
\* most tracks of a drawn MIDI file
MaxTracks == 2
\* most messages (all tracks together) of a drawn MIDI file
MaxMsgs == 3

\* note numbers used by the drawn files (MIDI notes are 0..127)
NoteIds == {60, 62}
\* delta times used by the drawn messages
Deltas == {0, 1}

-----------------------------------------------------------------------------
(* Generic helpers *)

EmptyDict == <<>>

Min(a, b) == IF a <= b THEN a ELSE b

Max(a, b) == IF a >= b THEN a ELSE b

\* Sequences over S of length at most n
SeqsUpTo(S, n) == UNION {[1..k -> S] : k \in 0..n}

RECURSIVE GCD(_, _)
GCD(a, b) == IF b = 0 THEN a ELSE GCD(b, a % b)

RECURSIVE SumOver(_, _)
\* sum of f[k] over the keys k in S
SumOver(f, S) ==
    IF S = {} THEN 0
    ELSE LET k == CHOOSE k \in S : TRUE
         IN  f[k] + SumOver(f, S \ {k})

\* Python's seq[:-1]
AllButLast(seq) == IF Len(seq) = 0 THEN <<>> ELSE SubSeq(seq, 1, Len(seq) - 1)

\* Python's seq[1:]
AllButFirst(seq) == IF Len(seq) = 0 THEN <<>> ELSE SubSeq(seq, 2, Len(seq))

\* Python's zip(a, b): pairs up to the shorter argument
Zip(a, b) == [k \in 1..Min(Len(a), Len(b)) |-> <<a[k], b[k]>>]

\* AdjacentPairs with the second slice one place too far: zip(seq[:-1], seq[2:])
AdjacentPairsSkewed(seq) == Zip(AllButLast(seq), AllButFirst(AllButFirst(seq)))

\* zip(sequence[:-1], sequence[1:])
AdjacentPairs(seq) == Zip(AllButLast(seq), AllButFirst(seq))

-----------------------------------------------------------------------------
(* MIDI files as mido presents them *)

\* A message: every message has .time, .is_meta and .type; only note
\* messages have .note and .velocity.
NoteOn(t, n, v) == [time |-> t, is_meta |-> FALSE, type |-> "note_on", note |-> n, velocity |-> v]

NoteOff(t, n, v) == [time |-> t, is_meta |-> FALSE, type |-> "note_off", note |-> n, velocity |-> v]

MetaMsg(t) == [time |-> t, is_meta |-> TRUE, type |-> "set_tempo"]

\* A file: `load` says which of MidiFile(path) / MidiFile(path, clip=True)
\* succeeds, `tracks` is what the successful load returns.
ParsedFile(load, tracks) == [load |-> load, tracks |-> tracks]

UnreadableFile == [load |-> "unreadable", tracks |-> <<>>]

\* A one-track file that plays the notes of s one tick apart
SeqFile(s) == ParsedFile("strict", << [k \in 1..Len(s) |-> NoteOn(1, s[k], 64)] >>)

-----------------------------------------------------------------------------
(* extract_note_sequence *)

RECURSIVE TrackEvents(_, _, _)
\* The events one track appends: abs_time is the running sum of msg.time
\* from position k on, starting from abs_time.
TrackEvents(track, k, abs_time) ==
    IF k > Len(track) THEN <<>>
    ELSE LET msg == track[k]
             t   == abs_time + msg.time
         IN  IF ~msg.is_meta /\ msg.type = "note_on" /\ msg.velocity > 0
             THEN <<<<t, msg.note>>>> \o TrackEvents(track, k + 1, t)
             ELSE TrackEvents(track, k + 1, t)

RECURSIVE AllEvents(_, _)
\* `for track in mid.tracks`: the events list after the loops
AllEvents(tracks, k) ==
    IF k > Len(tracks) THEN <<>>
    ELSE TrackEvents(tracks[k], 1, 0) \o AllEvents(tracks, k + 1)

\* SortKey taking the note instead of the time: key=lambda x: x[1]
SortKeyNote(e) == e[2]

\* sort key of events.sort(key=lambda x: x[0])
SortKey(e) == e[1]

RECURSIVE InsertStable(_, _)
\* e placed behind every element whose key is not larger
InsertStable(sorted, e) ==
    IF sorted = <<>> THEN <<e>>
    ELSE IF SortKey(sorted[Len(sorted)]) <= SortKey(e)
         THEN Append(sorted, e)
         ELSE Append(InsertStable(AllButLast(sorted), e), sorted[Len(sorted)])

RECURSIVE StableSort(_, _)
\* list.sort is stable: equal keys keep their order of insertion
StableSort(events, k) ==
    IF k = 0 THEN <<>>
    ELSE InsertStable(StableSort(events, k - 1), events[k])

extract_note_sequence(mid) ==
    IF mid.load = "unreadable" THEN <<>>
    ELSE LET events == AllEvents(mid.tracks, 1)
             sorted == StableSort(events, Len(events))
         IN  [k \in 1..Len(sorted) |-> sorted[k][2]]

-----------------------------------------------------------------------------
(* Python dicts *)

\* d.get(key, default)
DictGet(d, key, default) == IF key \in DOMAIN d THEN d[key] ELSE default

\* d[key] = value
DictSet(d, key, value) ==
    [k \in DOMAIN d \cup {key} |-> IF k = key THEN value ELSE d[k]]

-----------------------------------------------------------------------------
(* build_first_order_markov *)

\* Increment that starts the row afresh: counts[x] = {y: counts[x][y] + 1}
IncrementFreshRow(cnt, x, y) ==
    LET row == DictGet(cnt, x, EmptyDict)
    IN  DictSet(cnt, x, DictSet(EmptyDict, y, DictGet(row, y, 0) + 1))

\* counts[x][y] += 1 on a defaultdict(lambda: defaultdict(int)): a missing
\* row, and a missing cell of a row, come into being on first use
Increment(cnt, x, y) ==
    LET row == DictGet(cnt, x, EmptyDict)
    IN  DictSet(cnt, x, DictSet(row, y, DictGet(row, y, 0) + 1))

RECURSIVE CountPairs(_, _, _)
\* for x, y in zip(seq[:-1], seq[1:]): counts[x][y] += 1, from pair k on
CountPairs(cnt, pairs, k) ==
    IF k > Len(pairs) THEN cnt
    ELSE CountPairs(Increment(cnt, pairs[k][1], pairs[k][2]), pairs, k + 1)

\* CountFile with the length test one too high: if len(seq) < 3
CountFileMinThree(cnt, seq) ==
    IF Len(seq) < 3 THEN cnt
    ELSE CountPairs(cnt, AdjacentPairs(seq), 1)

\* CountFile that leaves out the first transition of every file
CountFileSkipFirst(cnt, seq) ==
    IF Len(seq) < 2 THEN cnt
    ELSE CountPairs(cnt, AdjacentPairs(seq), 2)

\* one iteration of `for path in midi_paths`, given the extracted sequence
CountFile(cnt, seq) ==
    IF Len(seq) < 2 THEN cnt
    ELSE CountPairs(cnt, AdjacentPairs(seq), 1)

RECURSIVE CountFiles(_, _, _, _)
\* the loop over midi_paths from position k on
CountFiles(cnt, midi_paths, filesys, k) ==
    IF k > Len(midi_paths) THEN cnt
    ELSE CountFiles(CountFile(cnt, extract_note_sequence(filesys[midi_paths[k]])),
                    midi_paths, filesys, k + 1)

\* sum(next_counts.values())
RowTotal(next_counts) == SumOver(next_counts, DOMAIN next_counts)

\* the float c / total
Divide(c, total) ==
    LET g == GCD(c, total)
    IN  <<c \div g, total \div g>>

\* Normalize dividing by the total of the whole table, not of the row
NormalizeByTable(cnt) ==
    LET all == SumOver([s \in DOMAIN cnt |-> RowTotal(cnt[s])], DOMAIN cnt)
    IN  [x \in {s \in DOMAIN cnt : RowTotal(cnt[s]) # 0} |->
            [y \in DOMAIN cnt[x] |-> Divide(cnt[x][y], all)]]

\* the second loop: rows of total 0 are left out, the others are divided
Normalize(cnt) ==
    [x \in {s \in DOMAIN cnt : RowTotal(cnt[s]) # 0} |->
        [y \in DOMAIN cnt[x] |-> Divide(cnt[x][y], RowTotal(cnt[x]))]]

RECURSIVE Concatenated(_, _, _)
\* the sequences of the files from position k on, joined into one
Concatenated(midi_paths, filesys, k) ==
    IF k > Len(midi_paths) THEN <<>>
    ELSE extract_note_sequence(filesys[midi_paths[k]]) \o Concatenated(midi_paths, filesys, k + 1)

\* build_first_order_markov counting over the joined sequences of all files
BuildOverJoined(midi_paths, filesys) ==
    LET cnt == CountFile(EmptyDict, Concatenated(midi_paths, filesys, 1))
    IN  [transition_probs |-> Normalize(cnt), counts |-> cnt]

build_first_order_markov(midi_paths, filesys) ==
    LET cnt == CountFiles(EmptyDict, midi_paths, filesys, 1)
    IN  [transition_probs |-> Normalize(cnt), counts |-> cnt]

-----------------------------------------------------------------------------
(* compute_surprise_sequence *)

\* the probability given to a transition no model row holds
Fallback == <<1, 1000000>>

\* s = -log2(p)
NegLog2(p) == [neglog2 |-> p]

\* TransitionProb with the fallback only for an absent source row
TransitionProbRowOnly(transition_probs, prev_note, next_note) ==
    IF prev_note \in DOMAIN transition_probs
    THEN DictGet(transition_probs[prev_note], next_note, <<0, 1>>)
    ELSE Fallback

\* p_dict = transition_probs.get(prev_note, {}); p = p_dict.get(next_note, 1e-6)
TransitionProb(transition_probs, prev_note, next_note) ==
    LET p_dict == DictGet(transition_probs, prev_note, EmptyDict)
    IN  DictGet(p_dict, next_note, Fallback)

\* What one look-up leaves of the dict it reads: dict.get inserts nothing
AfterLookup(transition_probs, prev_note) == transition_probs

RECURSIVE SurpriseLoop(_, _, _, _)
\* the loop from pair k on: the surprises appended and the dict as it is left
SurpriseLoop(pairs, k, surprises, transition_probs) ==
    IF k > Len(pairs)
    THEN [surprises |-> surprises, transition_probs |-> transition_probs]
    ELSE LET p == TransitionProb(transition_probs, pairs[k][1], pairs[k][2])
         IN  SurpriseLoop(pairs, k + 1, Append(surprises, NegLog2(p)),
                          AfterLookup(transition_probs, pairs[k][1]))

\* returns the surprises; transition_probs is the argument after the call
compute_surprise_sequence(sequence, transition_probs) ==
    SurpriseLoop(AdjacentPairs(sequence), 1, <<>>, transition_probs)

-----------------------------------------------------------------------------
(* Idle values of the variables a specification does not use *)

MainIdle ==
    /\ root_isdir = TRUE
    /\ fs = EmptyDict
    /\ midi_files = <<>>
    /\ idx = 0
    /\ text_files = {}
    /\ style_to_files = EmptyDict
    /\ style_order = <<>>
    /\ style_models = EmptyDict
    /\ cur = 0
    /\ bpos = 0
    /\ counts = EmptyDict
    /\ scored = <<>>
    /\ skipped = <<>>

NoCall == [fn |-> "none"]

-----------------------------------------------------------------------------
(* extract_note_sequence called on its own *)

\* the messages a drawn file is made of
Messages ==
    UNION { { NoteOn(t, n, 64) : n \in NoteIds }
            \cup { NoteOn(t, 60, 0), NoteOff(t, 60, 64), MetaMsg(t) } : t \in Deltas }

\* the messages `flat` cut into n tracks at the positions cuts[1] <= ... <= cuts[n-1]
CutTracks(flat, n, cuts) ==
    [k \in 1..n |->
        LET from == IF k = 1 THEN 0 ELSE cuts[k - 1]
            to   == IF k = n THEN Len(flat) ELSE cuts[k]
        IN  SubSeq(flat, from + 1, to)]

\* n tracks need n - 1 cuts, none behind the last message, in rising order
IsCutting(flat, n, cuts) ==
    /\ \A k \in 1..(n - 1) : cuts[k] <= Len(flat)
    /\ \A k \in 1..(n - 2) : cuts[k] <= cuts[k + 1]

\* The file is drawn: unreadable, or loaded (strictly, or only with
\* clip=True) as up to MaxTracks tracks of up to MaxMsgs messages in all
InitExtract ==
    /\ MainIdle
    /\ pc = "call"
    /\ \/ call = [fn |-> "extract_note_sequence", mid |-> UnreadableFile]
       \/ \E load \in {"strict", "clip"} :
            \/ call = [fn |-> "extract_note_sequence", mid |-> ParsedFile(load, <<>>)]
            \/ \E flat \in SeqsUpTo(Messages, MaxMsgs), n \in 1..MaxTracks :
                 \E cuts \in [1..(n - 1) -> 0..MaxMsgs] :
                    /\ IsCutting(flat, n, cuts)
                    /\ call = [fn |-> "extract_note_sequence",
                               mid |-> ParsedFile(load, CutTracks(flat, n, cuts))]
    /\ ret = <<>>

Extract ==
    /\ pc = "call"
    /\ call.fn = "extract_note_sequence"
    /\ ret' = extract_note_sequence(call.mid)
    /\ pc' = "returned"
    /\ UNCHANGED <<mainVars, call>>

NextExtract == Extract

SpecExtract == InitExtract /\ [][NextExtract]_vars


-----------------------------------------------------------------------------
(* build_first_order_markov called on its own, then again after the list  *)
(* of paths was put in another order                                      *)

\* what a corpus file holds: a melody of at most MaxLen notes, or nothing readable
CorpusFiles == {SeqFile(s) : s \in SeqsUpTo(NoteIds, MaxLen)} \cup {UnreadableFile}

CorpusPath(k) == <<"corpus", k>>

Orderings(n) == {p \in [1..n -> 1..n] : \A a, b \in 1..n : p[a] = p[b] => a = b}

InitBuild ==
    /\ root_isdir = TRUE
    /\ \E n \in 0..MaxPaths :
         /\ fs \in [{CorpusPath(k) : k \in 1..n} -> CorpusFiles]
         /\ call = [fn |-> "build_first_order_markov",
                    midi_paths |-> [k \in 1..n |-> CorpusPath(k)]]
    /\ pc = "call"
    /\ ret = [first |-> <<>>, second |-> <<>>]
    /\ midi_files = <<>>
    /\ idx = 0
    /\ text_files = {}
    /\ style_to_files = EmptyDict
    /\ style_order = <<>>
    /\ style_models = EmptyDict
    /\ cur = 0
    /\ bpos = 0
    /\ counts = EmptyDict
    /\ scored = <<>>
    /\ skipped = <<>>

Build ==
    /\ pc = "call"
    /\ call.fn = "build_first_order_markov"
    /\ ret' = [ret EXCEPT !.first = build_first_order_markov(call.midi_paths, fs)]
    /\ pc' = "built"
    /\ UNCHANGED <<mainVars, call>>

\* the caller hands the same files over in another order
Reorder ==
    /\ pc = "built"
    /\ \E p \in Orderings(Len(call.midi_paths)) :
         call' = [call EXCEPT !.midi_paths = [k \in 1..Len(call.midi_paths) |-> call.midi_paths[p[k]]]]
    /\ pc' = "reordered"
    /\ UNCHANGED <<mainVars, ret>>

Rebuild ==
    /\ pc = "reordered"
    /\ ret' = [ret EXCEPT !.second = build_first_order_markov(call.midi_paths, fs)]
    /\ pc' = "rebuilt"
    /\ UNCHANGED <<mainVars, call>>

NextBuild == Build \/ Reorder \/ Rebuild

SpecBuild == InitBuild /\ [][NextBuild]_vars

-----------------------------------------------------------------------------
(* compute_surprise_sequence called on its own, with the model of a drawn *)
(* count table                                                            *)

\* the dict of a table of counts: a cell of count 0 is absent, and so is a
\* row without cells
TableDict(t) ==
    [x \in {s \in NoteIds : \E d \in NoteIds : t[<<s, d>>] > 0} |->
        [y \in {d \in NoteIds : t[<<x, d>>] > 0} |-> t[<<x, y>>]]]

InitScore ==
    /\ MainIdle
    /\ pc = "call"
    /\ \E t \in [NoteIds \X NoteIds -> 0..MaxCount], sequence \in SeqsUpTo(NoteIds, MaxLen) :
         call = [fn |-> "compute_surprise_sequence",
                 sequence |-> sequence,
                 transition_probs |-> Normalize(TableDict(t)),
                 given |-> Normalize(TableDict(t))]
    /\ ret = <<>>

Score ==
    /\ pc = "call"
    /\ call.fn = "compute_surprise_sequence"
    /\ LET r == compute_surprise_sequence(call.sequence, call.transition_probs)
       IN  /\ ret' = r.surprises
           /\ call' = [call EXCEPT !.transition_probs = r.transition_probs]
    /\ pc' = "returned"
    /\ UNCHANGED mainVars

NextScore == Score

SpecScore == InitScore /\ [][NextScore]_vars


-----------------------------------------------------------------------------
(* main *)

\* The *.mid files a corpus tree may hold, in the order os.walk lists them:
\* one file directly under ROOT_DIR, two under the style folder "jazz"
CorpusTree == << <<"a.mid">>, <<"jazz", "b.mid">>, <<"jazz", "live", "c.mid">> >>

RECURSIVE Listing(_, _, _)
\* find_midi_files: the files of the tree that exist, in walking order
Listing(tree, present, k) ==
    IF k > Len(tree) THEN <<>>
    ELSE IF tree[k] \in present
         THEN <<tree[k]>> \o Listing(tree, present, k + 1)
         ELSE Listing(tree, present, k + 1)

find_midi_files(filesys) == Listing(CorpusTree, DOMAIN filesys, 1)

\* rel.split(os.sep)[0] if os.sep in rel else "ROOT"
StyleOf(path) == IF Len(path) > 1 THEN path[1] ELSE "ROOT"

RECURSIVE GroupFiles(_, _, _)
\* style_to_files[style].append(path) for the paths from position k on
GroupFiles(files, k, dict) ==
    IF k > Len(files) THEN dict
    ELSE LET style == StyleOf(files[k])
         IN  GroupFiles(files, k + 1,
                        DictSet(dict, style, Append(DictGet(dict, style, <<>>), files[k])))

RECURSIVE KeyOrder(_, _, _)
\* the order in which GroupFiles inserts the keys, which .items() follows
KeyOrder(files, k, order) ==
    IF k > Len(files) THEN order
    ELSE LET style == StyleOf(files[k])
         IN  KeyOrder(files, k + 1,
                      IF \E j \in 1..Len(order) : order[j] = style
                      THEN order ELSE Append(order, style))

\* ModelLookup that always asks for the style of the root folder
ModelLookupRoot(models, style) == DictGet(models, "ROOT", EmptyDict)

\* model = style_models.get(style, {})
ModelLookup(models, style) == DictGet(models, style, EmptyDict)

\* Continue written as `break`: the scoring loop is left
ContinueAsBreak(i, n) == [pc |-> "done", idx |-> i]

\* `continue` in the scoring loop: on to the next file, or out of the loop
Continue(i, n) ==
    IF i < n THEN [pc |-> "score", idx |-> i + 1] ELSE [pc |-> "done", idx |-> i]

Init ==
    /\ root_isdir \in BOOLEAN
    /\ \E present \in SUBSET {CorpusTree[k] : k \in 1..Len(CorpusTree)} :
         /\ root_isdir = FALSE => present = {}
         /\ fs \in [present -> CorpusFiles]
    /\ pc = "start"
    /\ midi_files = <<>>
    /\ idx = 0
    /\ text_files = {}
    /\ style_to_files = EmptyDict
    /\ style_order = <<>>
    /\ style_models = EmptyDict
    /\ cur = 0
    /\ bpos = 0
    /\ counts = EmptyDict
    /\ scored = <<>>
    /\ skipped = <<>>
    /\ call = NoCall
    /\ ret = <<>>

\* lines 189-196: the root is checked and the files are found
Discover ==
    /\ pc = "start"
    /\ IF ~root_isdir
       THEN /\ pc' = "done"
            /\ UNCHANGED <<midi_files, idx>>
       ELSE /\ midi_files' = find_midi_files(fs)
            /\ IF midi_files' = <<>>
               THEN pc' = "done" /\ UNCHANGED idx
               ELSE pc' = "dump" /\ idx' = 1
    /\ UNCHANGED <<root_isdir, fs, text_files, style_to_files, style_order,
                   style_models, cur, bpos, counts, scored, skipped, call, ret>>

\* lines 200-207: one text dump; an unreadable file is reported and left out
DumpText ==
    /\ pc = "dump"
    /\ LET path == midi_files[idx]
       IN  text_files' = IF fs[path].load = "unreadable"
                         THEN text_files ELSE text_files \cup {path}
    /\ IF idx < Len(midi_files)
       THEN idx' = idx + 1 /\ pc' = "dump"
       ELSE idx' = idx /\ pc' = "group"
    /\ UNCHANGED <<root_isdir, fs, midi_files, style_to_files, style_order,
                   style_models, cur, bpos, counts, scored, skipped, call, ret>>

\* lines 211-217: the files are grouped by style
GroupByStyle ==
    /\ pc = "group"
    /\ style_to_files' = GroupFiles(midi_files, 1, EmptyDict)
    /\ style_order' = KeyOrder(midi_files, 1, <<>>)
    /\ style_models' = EmptyDict
    /\ cur' = 1
    /\ pc' = "build"
    /\ UNCHANGED <<root_isdir, fs, midi_files, idx, text_files, bpos, counts,
                   scored, skipped, call, ret>>

\* lines 218-221: build_first_order_markov(files) is entered for the next style
BuildStart ==
    /\ pc = "build"
    /\ counts' = EmptyDict
    /\ bpos' = 1
    /\ pc' = "build_file"
    /\ UNCHANGED <<root_isdir, fs, midi_files, idx, text_files, style_to_files,
                   style_order, style_models, cur, scored, skipped, call, ret>>

\* lines 123-128: one file of the style is extracted and counted
BuildFile ==
    /\ pc = "build_file"
    /\ LET files == style_to_files[style_order[cur]]
       IN  /\ bpos <= Len(files)
           /\ counts' = CountFile(counts, extract_note_sequence(fs[files[bpos]]))
    /\ bpos' = bpos + 1
    /\ UNCHANGED <<root_isdir, fs, pc, midi_files, idx, text_files, style_to_files,
                   style_order, style_models, cur, scored, skipped, call, ret>>

\* lines 130-137 and 220-221: the counts are normalised, the model is
\* returned and stored; then the next style, or the scoring loop
BuildFinish ==
    /\ pc = "build_file"
    /\ bpos > Len(style_to_files[style_order[cur]])
    /\ style_models' = DictSet(style_models, style_order[cur], Normalize(counts))
    /\ IF cur < Len(style_order)
       THEN cur' = cur + 1 /\ pc' = "build" /\ idx' = idx
       ELSE cur' = cur /\ pc' = "score" /\ idx' = 1
    /\ UNCHANGED <<root_isdir, fs, midi_files, text_files, style_to_files,
                   style_order, bpos, counts, scored, skipped, call, ret>>

\* lines 226-246: one file of the scoring loop
ScoreFile ==
    /\ pc = "score"
    /\ LET path  == midi_files[idx]
           style == StyleOf(path)
           model == ModelLookup(style_models, style)
           seq   == extract_note_sequence(fs[path])
           r     == compute_surprise_sequence(seq, model)
           next  == Continue(idx, Len(midi_files))
       IN  IF DOMAIN model = {}
           THEN /\ skipped' = Append(skipped, [path |-> path, why |-> "no model"])
                /\ pc' = next.pc /\ idx' = next.idx
                /\ UNCHANGED <<scored, style_models>>
           ELSE IF Len(seq) < 2
           THEN /\ skipped' = Append(skipped, [path |-> path, why |-> "too few notes"])
                /\ pc' = next.pc /\ idx' = next.idx
                /\ UNCHANGED <<scored, style_models>>
           ELSE /\ scored' = Append(scored, [path |-> path, sequence |-> seq,
                                             surprises |-> r.surprises, model |-> model])
                /\ style_models' = IF style \in DOMAIN style_models
                                   THEN DictSet(style_models, style, r.transition_probs)
                                   ELSE style_models
                /\ IF idx < Len(midi_files)
                   THEN idx' = idx + 1 /\ pc' = "score"
                   ELSE idx' = idx /\ pc' = "done"
                /\ UNCHANGED skipped
    /\ UNCHANGED <<root_isdir, fs, midi_files, text_files, style_to_files,
                   style_order, cur, bpos, counts, call, ret>>

Next ==
    \/ Discover
    \/ DumpText
    \/ GroupByStyle
    \/ BuildStart
    \/ BuildFile
    \/ BuildFinish
    \/ ScoreFile

Spec == Init /\ [][Next]_vars


-----------------------------------------------------------------------------
(* Properties of extract_note_sequence (SpecExtract) *)

\* a "note begins sounding with positive velocity" message
IsNoteBegin(msg) == msg.type = "note_on" /\ ~msg.is_meta /\ msg.velocity > 0

\* the places <<track, position>> of the note-begin messages of a file
NoteBegins(tracks) ==
    UNION { { <<t, i>> : i \in {j \in 1..Len(tracks[t]) : IsNoteBegin(tracks[t][j])} }
            : t \in 1..Len(tracks) }

\* the deltas of the track added up from its start to the message at place p
AbsoluteTime(tracks, p) ==
    SumOver([k \in 1..p[2] |-> tracks[p[1]][k].time], 1..p[2])

\* q sounds before p: earlier in time, or at the same time in an earlier
\* track, or at the same time earlier in the same track
SoundsBefore(tracks, q, p) ==
    \/ AbsoluteTime(tracks, q) < AbsoluteTime(tracks, p)
    \/ /\ AbsoluteTime(tracks, q) = AbsoluteTime(tracks, p)
       /\ \/ q[1] < p[1]
          \/ q[1] = p[1] /\ q[2] < p[2]

PlaceInSequence(tracks, p) ==
    1 + Cardinality({q \in NoteBegins(tracks) : SoundsBefore(tracks, q, p)})

Extracted == pc = "returned" /\ call.fn = "extract_note_sequence"

\* C5: for a parsed file the extracted sequence has exactly one note per
\* non-meta note_on message of positive velocity, and the note of each such
\* message stands at the place given by its absolute time (the sum of all
\* deltas of its track up to it, non-note messages included), ties going
\* by track and then by position in the track.
C5_ExtractedInTimeOrder ==
    (Extracted /\ call.mid.load # "unreadable") =>
        LET tracks == call.mid.tracks
        IN  /\ Len(ret) = Cardinality(NoteBegins(tracks))
            /\ \A p \in NoteBegins(tracks) :
                 /\ PlaceInSequence(tracks, p) \in 1..Len(ret)
                 /\ ret[PlaceInSequence(tracks, p)] = tracks[p[1]][p[2]].note

\* Two tracks whose notes differ and fall on the same tick, the second
\* one's time coming from the delta of a meta message before it.
C5_Witness ==
    /\ Extracted
    /\ call.mid.load = "clip"
    /\ LET tracks == call.mid.tracks
       IN  /\ Len(tracks) = 2
           /\ \E p, q \in NoteBegins(tracks) :
                /\ q[1] = 1 /\ p[1] = 2 /\ p[2] = 2
                /\ tracks[2][1].is_meta /\ tracks[2][1].time > 0
                /\ AbsoluteTime(tracks, p) = AbsoluteTime(tracks, q)
                /\ tracks[1][q[2]].note # tracks[2][p[2]].note
                /\ ret = <<tracks[1][q[2]].note, tracks[2][p[2]].note>>

-----------------------------------------------------------------------------
(* Properties of compute_surprise_sequence (SpecScore) *)

Scored == pc = "returned" /\ call.fn = "compute_surprise_sequence"

\* C4: the surprise sequence has max(len(sequence) - 1, 0) values and value
\* i is the surprise of the transition (sequence[i], sequence[i+1]).
C4_OneSurprisePerTransition ==
    Scored =>
        /\ Len(ret) = Max(Len(call.sequence) - 1, 0)
        /\ Len(call.sequence) <= 1 => ret = <<>>
        /\ \A i \in 1..Len(ret) :
             ret[i] = NegLog2(TransitionProb(call.given, call.sequence[i], call.sequence[i + 1]))

\* A sequence of three notes whose two transitions get different surprises.
C4_Witness ==
    /\ Scored
    /\ Len(call.sequence) = 3
    /\ Len(ret) = 2
    /\ ret[1] # ret[2]

\* the transition (prev, next) is recorded in the model
Recorded(model, prev, next) == prev \in DOMAIN model /\ next \in DOMAIN model[prev]

\* C9: the probability used for (prev, next) is model[prev][next] when
\* prev is a source of the model and next a destination recorded for it,
\* and 1e-6 in every other case; it is positive and at most 1; the model is
\* the same after scoring as before.
C9_ProbabilityUsed ==
    Scored =>
        /\ \A i \in 1..(Len(call.sequence) - 1) :
             LET prev == call.sequence[i]
                 next == call.sequence[i + 1]
                 p    == ret[i].neglog2
             IN  /\ Recorded(call.given, prev, next) => p = call.given[prev][next]
                 /\ ~Recorded(call.given, prev, next) => p = <<1, 1000000>>
                 /\ 0 < p[1] /\ p[1] <= p[2]
        /\ call.transition_probs = call.given

\* A sequence whose first transition is recorded with a probability below 1
\* and whose second has its source in the model but not its destination.
C9_Witness ==
    /\ Scored
    /\ Len(call.sequence) = 3
    /\ Recorded(call.given, call.sequence[1], call.sequence[2])
    /\ call.given[call.sequence[1]][call.sequence[2]] # <<1, 1>>
    /\ call.sequence[2] \in DOMAIN call.given
    /\ ~Recorded(call.given, call.sequence[2], call.sequence[3])
    /\ ret[2] = NegLog2(Fallback)

-----------------------------------------------------------------------------
(* Properties of build_first_order_markov (SpecBuild) *)

Built == pc = "built" /\ call.fn = "build_first_order_markov"

\* the sequences of the files handed over
SequencesOf(midi_paths) ==
    [k \in 1..Len(midi_paths) |-> extract_note_sequence(fs[midi_paths[k]])]

\* the places <<file, position>> where prev is followed by next
Occurrences(seqs, prev, next) ==
    UNION { { <<k, i>> : i \in {j \in 1..(Len(seqs[k]) - 1) :
                                  seqs[k][j] = prev /\ seqs[k][j + 1] = next} }
            : k \in 1..Len(seqs) }

\* count[prev][next], 0 where the table has no such cell
CountOf(cnt, prev, next) == DictGet(DictGet(cnt, prev, EmptyDict), next, 0)

\* C6: count[prev][next] is the number of places, over the single
\* sequences, where prev is followed by next; nothing is counted across
\* two files; all counts together are the sum of max(len - 1, 0).
C6_CountsWithinFiles ==
    Built =>
        LET seqs == SequencesOf(call.midi_paths)
            cnt  == ret.first.counts
        IN  /\ \A prev \in NoteIds, next \in NoteIds :
                 CountOf(cnt, prev, next) = Cardinality(Occurrences(seqs, prev, next))
            /\ DOMAIN cnt \subseteq NoteIds
            /\ \A prev \in DOMAIN cnt : DOMAIN cnt[prev] \subseteq NoteIds
            /\ SumOver([prev \in DOMAIN cnt |-> RowTotal(cnt[prev])], DOMAIN cnt)
                 = SumOver([k \in 1..Len(seqs) |-> Max(Len(seqs[k]) - 1, 0)], 1..Len(seqs))

\* Two files, the first ending in a note and the second starting with one
\* that never follow each other inside a file.
C6_Witness ==
    /\ Built
    /\ Len(call.midi_paths) = 2
    /\ LET seqs == SequencesOf(call.midi_paths)
       IN  /\ Len(seqs[1]) >= 2 /\ Len(seqs[2]) >= 2
           /\ Occurrences(seqs, seqs[1][Len(seqs[1])], seqs[2][1]) = {}
           /\ CountOf(ret.first.counts, seqs[1][Len(seqs[1])], seqs[2][1]) = 0

\* C7: every source of a built model has a non-empty row; each probability
\* is count / total of its row, above 0 and at most 1; the row adds up to 1;
\* the sources of the model are exactly the notes followed by another note
\* in some file.
C7_RowsAreDistributions ==
    Built =>
        LET model == ret.first.transition_probs
            cnt   == ret.first.counts
            seqs  == SequencesOf(call.midi_paths)
        IN  /\ \A s \in DOMAIN model :
                 LET total == RowTotal(cnt[s])
                 IN  /\ DOMAIN model[s] # {}
                     /\ DOMAIN model[s] = DOMAIN cnt[s]
                     /\ \A d \in DOMAIN model[s] :
                          /\ model[s][d][1] * total = cnt[s][d] * model[s][d][2]
                          /\ 0 < model[s][d][1] /\ model[s][d][1] <= model[s][d][2]
                          /\ total % model[s][d][2] = 0
                     /\ SumOver([d \in DOMAIN model[s] |->
                                   model[s][d][1] * (total \div model[s][d][2])],
                                DOMAIN model[s]) = total
            /\ DOMAIN model = {s \in NoteIds : \E d \in NoteIds : Occurrences(seqs, s, d) # {}}

\* A model with a row of two destinations of different probability, and a
\* note that occurs in a file without being a source.
C7_Witness ==
    /\ Built
    /\ LET model == ret.first.transition_probs
       IN  /\ \E s \in DOMAIN model : \E d, e \in DOMAIN model[s] : model[s][d] # model[s][e]
           /\ DOMAIN model # NoteIds
           /\ DOMAIN ret.first.counts = DOMAIN model

Rebuilt == pc = "rebuilt" /\ call.fn = "build_first_order_markov"

\* C8: building from the same files in any order gives the same counts and
\* the same probabilities, and so does building twice from the same list.
C8_OrderDoesNotMatter ==
    Rebuilt =>
        /\ ret.second.counts = ret.first.counts
        /\ ret.second.transition_probs = ret.first.transition_probs

\* Two files of different melodies with a common source note, built in both orders.
C8_Witness ==
    /\ Rebuilt
    /\ Len(call.midi_paths) = 2
    /\ call.midi_paths = <<CorpusPath(2), CorpusPath(1)>>
    /\ LET seqs == SequencesOf(call.midi_paths)
       IN  /\ Len(seqs[1]) >= 2 /\ Len(seqs[2]) >= 2
           /\ seqs[1] # seqs[2]
           /\ seqs[1][1] = seqs[2][1]
           /\ seqs[1][2] # seqs[2][2]
    /\ ret.second.transition_probs # EmptyDict


-----------------------------------------------------------------------------
(* Properties of a run of main (Spec) *)

\* the style of a file, from its place under ROOT_DIR
TopFolder(path) == IF Len(path) = 1 THEN "ROOT" ELSE Head(path)

Styles == {TopFolder(midi_files[k]) : k \in 1..Len(midi_files)}

RECURSIVE FilesOfStyle(_, _)
\* the discovered files of a style, in the order of discovery
FilesOfStyle(style, k) ==
    IF k > Len(midi_files) THEN <<>>
    ELSE IF TopFolder(midi_files[k]) = style
         THEN <<midi_files[k]>> \o FilesOfStyle(style, k + 1)
         ELSE FilesOfStyle(style, k + 1)

\* the file has at least 2 notes
Scorable(path) == Len(extract_note_sequence(fs[path])) >= 2

ScoredPaths == {scored[k].path : k \in 1..Len(scored)}

SkippedPaths == {skipped[k].path : k \in 1..Len(skipped)}

RunOver == pc = "done" /\ midi_files # <<>>

\* C1: whenever a file has been scored, model building has returned for
\* every style and no build is under way, and the model each file was
\* scored with is the finished model of the file's own style.
C1_BuildBeforeScore ==
    /\ scored # <<>> =>
         /\ pc \in {"score", "done"}
         /\ DOMAIN style_models = Styles
    /\ \A k \in 1..Len(scored) :
         LET style == TopFolder(scored[k].path)
         IN  /\ style \in DOMAIN style_models
             /\ scored[k].model = style_models[style]
             /\ scored[k].model =
                  build_first_order_markov(FilesOfStyle(style, 1), fs).transition_probs

\* Files of two styles were scored, each with a model the other style does not have.
C1_Witness ==
    /\ pc = "done"
    /\ \E j, k \in 1..Len(scored) :
         /\ TopFolder(scored[j].path) = "ROOT"
         /\ TopFolder(scored[k].path) = "jazz"
         /\ scored[j].model # scored[k].model
         /\ Len(FilesOfStyle("jazz", 1)) = 2

\* every file of the style has fewer than 2 notes
AllTooShort(style) ==
    \A k \in 1..Len(midi_files) :
        TopFolder(midi_files[k]) = style => ~Scorable(midi_files[k])

\* C2: at the end of a run, a style whose every file has fewer than 2 notes
\* has an empty model and no scored file, every file of at least 2 notes of
\* the other styles has been scored, and the scoring loop has gone through
\* every discovered file.
C2_EmptyStyleIsIsolated ==
    RunOver =>
        /\ Len(scored) + Len(skipped) = Len(midi_files)
        /\ \A style \in Styles :
             AllTooShort(style) =>
               /\ style \in DOMAIN style_models
               /\ style_models[style] = EmptyDict
               /\ \A k \in 1..Len(scored) : TopFolder(scored[k].path) # style
               /\ \A k \in 1..Len(midi_files) :
                    (TopFolder(midi_files[k]) # style /\ Scorable(midi_files[k]))
                        => midi_files[k] \in ScoredPaths

\* The root style has only a file too short to score, found first, one
\* jazz file is unreadable, and the other jazz file has been scored.
C2_Witness ==
    /\ RunOver
    /\ Len(midi_files) = 3
    /\ AllTooShort("ROOT")
    /\ fs[midi_files[1]].load # "unreadable"
    /\ fs[midi_files[2]].load = "unreadable"
    /\ ScoredPaths = {midi_files[3]}
    /\ Len(skipped) = 2

\* C3: at the end of a run over a non-empty set of files, every file of at
\* least 2 notes has been handed to the writer exactly once, with its
\* sequence and one surprise per transition, and every skipped file has
\* fewer than 2 notes.
C3_EveryScorableFileScoredOnce ==
    RunOver =>
        /\ \A k \in 1..Len(midi_files) :
             Scorable(midi_files[k]) =>
               /\ Cardinality({j \in 1..Len(scored) : scored[j].path = midi_files[k]}) = 1
               /\ midi_files[k] \notin SkippedPaths
        /\ \A j \in 1..Len(scored) :
             /\ scored[j].sequence = extract_note_sequence(fs[scored[j].path])
             /\ Len(scored[j].surprises) = Len(scored[j].sequence) - 1
        /\ \A j \in 1..Len(skipped) : ~Scorable(skipped[j].path)
        /\ \A style \in Styles :
             (\E k \in 1..Len(midi_files) :
                 TopFolder(midi_files[k]) = style /\ Scorable(midi_files[k]))
               => \E j \in 1..Len(scored) : TopFolder(scored[j].path) = style

\* A run with one skip for want of a model, one file of exactly 2 notes
\* scored, and one skip for too few notes in a style that has a model.
C3_Witness ==
    /\ RunOver
    /\ Len(scored) = 1
    /\ Len(scored[1].sequence) = 2
    /\ \E i, j \in 1..Len(skipped) :
         /\ skipped[i].why = "no model"
         /\ skipped[j].why = "too few notes"

\* C10: no transition of a scored file gets the fallback probability:
\* every adjacent pair of the file is recorded in the model it is scored
\* with, and its surprise is that of the recorded probability.
C10_NoFallbackInSample ==
    \A k \in 1..Len(scored) :
        \A i \in 1..(Len(scored[k].sequence) - 1) :
            LET prev == scored[k].sequence[i]
                next == scored[k].sequence[i + 1]
            IN  /\ Recorded(scored[k].model, prev, next)
                /\ scored[k].surprises[i] = NegLog2(scored[k].model[prev][next])
                /\ scored[k].surprises[i] # NegLog2(<<1, 1000000>>)

\* Two jazz files scored against a model in which a transition of the one
\* has a probability below 1 because of the other.
C10_Witness ==
    /\ pc = "done"
    /\ \E j, k \in 1..Len(scored) :
         /\ j # k
         /\ TopFolder(scored[j].path) = "jazz"
         /\ TopFolder(scored[k].path) = "jazz"
         /\ scored[j].sequence # scored[k].sequence
         /\ Len(scored[j].sequence) = 3
         /\ \E i \in 1..Len(scored[j].surprises) :
              scored[j].surprises[i] # NegLog2(<<1, 1>>)

====
